---- MODULE Spec2Model ----
(***************************************************************************)
(* The event-log ingestion script app.py: schema reset, five batched       *)
(* upsert stages (Event, Case, Activity, Resource, Object) and the         *)
(* NEXT_EVENT sequence query, run against a property graph.                *)
(*                                                                         *)
(* The graph is a record of node sets and relationship sets.  Every node   *)
(* and relationship carries its own identity (nid / rid), so that two      *)
(* nodes with the same key, or two relationships between the same nodes,   *)
(* are distinct elements: MERGE is what keeps them unique.                 *)
(***************************************************************************)
EXTENDS Integers, Sequences, FiniteSets, TLC

VARIABLES
    json_data,    \* the loaded event log: json_data['ocel:events']
    BATCH_SIZE,   \* config["batch_size"]
    graph,        \* the nodes and relationships held by the store
    schema,       \* the constraints and indexes held by the store
    driverOpen,   \* whether the driver of the `with` scope is open
    pc,           \* the step of the script that runs next
    k,            \* index into constraint_queries (step 1)
    i,            \* index of the event the current stage's loop is at
    batch,        \* event_batch / case_batch / ... of the current stage
    issued,       \* this run's store operations, in the order issued
    logged,       \* this run's lines in graph.log
    run,          \* number of the current run of the script
    firstCounts   \* node and edge counts at the end of a successful first run

vars == <<json_data, BATCH_SIZE, graph, schema, driverOpen, pc, k, i, batch,
          issued, logged, run, firstCounts>>

-----------------------------------------------------------------------------
(* Bounds of the model. *)

MaxEvents == 3      \* longest event log
MaxBatch == 2       \* largest configured batch size
MaxRuns == 2        \* runs of the script against one store

-----------------------------------------------------------------------------
(* The event log.  An event is a function from the keys it has to their    *)
(* values, as a Python dict: a key that is absent is not in its DOMAIN.    *)
(* A timestamp string is [hour, form]: two forms of one hour ("...Z" and   *)
(* "...+00:00") are different strings that denote the same instant.        *)

Has(d, key) == key \in DOMAIN d

Get(d, key, default) == IF key \in DOMAIN d THEN d[key] ELSE default

Stamp(h, f) == [hour |-> h, form |-> f]

Hours == 1..3

ZuluStamps == {Stamp(h, "Z") : h \in Hours}

ObjectRef(id, type) == [id |-> id, type |-> type]

\* Events that differ in timestamp and case only: no resource, no objects key.
PlainEvent(id, ts, c) ==
    [ocel_id |-> id, ocel_timestamp |-> ts, ocel_activity |-> "A",
     ocel_attributes |-> [case_id |-> c]]

EventIdAt(j) == <<"e1", "e2", "e3", "e4">>[j]

\* Logs of up to n distinct events e1, e2, ...: e1 in case 1, the others in
\* case 1 or 2.
SequenceLogs(n) ==
    UNION {{[j \in 1..m |-> PlainEvent(EventIdAt(j), ts[j], cs[j])] :
              ts \in [1..m -> ZuluStamps],
              cs \in {f \in [1..m -> {1, 2}] : f[1] = 1}} :
           m \in 1..n}

\* Events that share an id, lack case_id or resource, carry more objects than
\* a batch holds, and write one instant in two forms; the last one has no
\* timestamp key and no objects key.
RichEvents ==
    {[ocel_id |-> "e1", ocel_timestamp |-> Stamp(1, "Z"), ocel_activity |-> "A",
      ocel_attributes |-> [case_id |-> 1, resource |-> "r1"],
      ocel_objects |-> <<ObjectRef("o1", "T")>>],
     [ocel_id |-> "e1", ocel_timestamp |-> Stamp(2, "Z"), ocel_activity |-> "A",
      ocel_attributes |-> [case_id |-> 1, resource |-> "r1"],
      ocel_objects |-> <<ObjectRef("o1", "T")>>],
     [ocel_id |-> "e2", ocel_timestamp |-> Stamp(1, "+00:00"), ocel_activity |-> "A",
      ocel_attributes |-> [case_id |-> 1],
      ocel_objects |-> <<ObjectRef("o1", "T"), ObjectRef("o1", "U"),
                         ObjectRef("o2", "T")>>],
     [ocel_id |-> "e2", ocel_timestamp |-> Stamp(2, "Z"), ocel_activity |-> "B",
      ocel_attributes |-> [resource |-> "r1"],
      ocel_objects |-> <<ObjectRef("o2", "T")>>],
     [ocel_id |-> "e1", ocel_activity |-> "A", ocel_attributes |-> <<>>]}

RichLogs(n) == UNION {[1..m -> RichEvents] : m \in 1..n}

\* The event logs of the runs on one log.
Logs == SequenceLogs(MaxEvents) \cup RichLogs(MaxEvents - 1)

\* The event logs of the runs on changing logs: e1 and e2 in one case or in
\* two, at one instant or at two, and each of the events above alone.
AnyLogs ==
    {<<PlainEvent("e1", Stamp(h1, "Z"), 1), PlainEvent("e2", Stamp(h2, "Z"), c)>> :
        h1 \in 1..2, h2 \in 1..2, c \in {1, 2}}
    \cup RichLogs(1)

-----------------------------------------------------------------------------
(* The store: Cypher's MERGE, MATCH and SET on the graph. *)

EmptyGraph ==
    [Event |-> {}, Case |-> {}, Activity |-> {}, Resource |-> {}, Object |-> {},
     CONTAINS_EVENT |-> {}, OF_TYPE |-> {}, PERFORMED_BY |-> {}, INVOLVES |-> {},
     NEXT_EVENT |-> {}, next |-> 1]

\* datetime($timestamp): the instant a timestamp string denotes.
datetime(ts) == ts.hour

SecondsPerHour == 3600

\* inSeconds with its arguments exchanged.
inSecondsSwapped(t1, t2) == SecondsPerHour * (t1 - t2)

\* duration.inSeconds(t1, t2), with instants in hours.
inSeconds(t1, t2) == SecondsPerHour * (t2 - t1)

\* MATCH (e:Event {ocel_id: $id})
MatchEvent(g, id) == {e \in g.Event : e.ocel_id = id}

\* MERGE (a)-[:type]->(b): one relationship is created when none exists.
MergeRel(g, type, a, b) ==
    IF \E r \in g[type] : r.src = a /\ r.dst = b
    THEN g
    ELSE [g EXCEPT ![type] = @ \cup {[rid |-> g.next, src |-> a, dst |-> b]},
                   !.next = @ + 1]

\* The MERGE of a relationship, once for every row <<a, b>> of `pairs`.
RECURSIVE MergeRels(_, _, _)
MergeRels(g, type, pairs) ==
    IF pairs = {}
    THEN g
    ELSE LET p == CHOOSE q \in pairs : TRUE
         IN MergeRels(MergeRel(g, type, p[1], p[2]), type, pairs \ {p})

\* event_query that writes nothing: the MATCH of the later stages misses.
event_query_skip(g, record) == g

event_query(g, record) ==
    LET matched == MatchEvent(g, record.id)
    IN IF matched = {}
       THEN [g EXCEPT !.Event = @ \cup {[nid |-> g.next, ocel_id |-> record.id,
                                         timestamp |-> datetime(record.timestamp),
                                         activity_name |-> record.activity]},
                      !.next = @ + 1]
       ELSE [g EXCEPT !.Event = (@ \ matched)
                          \cup {[e EXCEPT !.timestamp = datetime(record.timestamp),
                                          !.activity_name = record.activity] :
                                e \in matched}]

case_query(g, record) ==
    LET es == MatchEvent(g, record.id)
        found == {c \in g.Case : c.case_id = record.case_id}
        g1 == IF es = {} \/ found # {}
              THEN g
              ELSE [g EXCEPT !.Case = @ \cup {[nid |-> g.next,
                                               case_id |-> record.case_id]},
                             !.next = @ + 1]
        cs == {c \in g1.Case : c.case_id = record.case_id}
    IN MergeRels(g1, "CONTAINS_EVENT", {<<c.nid, e.nid>> : c \in cs, e \in es})

\* activity_query with CREATE (e)-[:OF_TYPE]->(a) in place of the MERGE.
activity_query_create(g, record) ==
    LET es == MatchEvent(g, record.id)
        found == {a \in g.Activity : a.name = record.activity
                                     /\ a.timestamp = record.timestamp}
        g1 == IF es = {} \/ found # {}
              THEN g
              ELSE [g EXCEPT !.Activity = @ \cup {[nid |-> g.next,
                                                   name |-> record.activity,
                                                   timestamp |-> record.timestamp]},
                             !.next = @ + 1]
        a == CHOOSE x \in g1.Activity : x.name = record.activity
                                        /\ x.timestamp = record.timestamp
    IN IF es = {}
       THEN g
       ELSE LET e == CHOOSE x \in es : TRUE
            IN [g1 EXCEPT !.OF_TYPE = @ \cup {[rid |-> g1.next, src |-> e.nid,
                                               dst |-> a.nid]},
                          !.next = @ + 1]

activity_query(g, record) ==
    LET es == MatchEvent(g, record.id)
        found == {a \in g.Activity : a.name = record.activity
                                     /\ a.timestamp = record.timestamp}
        g1 == IF es = {} \/ found # {}
              THEN g
              ELSE [g EXCEPT !.Activity = @ \cup {[nid |-> g.next,
                                                   name |-> record.activity,
                                                   timestamp |-> record.timestamp]},
                             !.next = @ + 1]
        as == {a \in g1.Activity : a.name = record.activity
                                   /\ a.timestamp = record.timestamp}
    IN MergeRels(g1, "OF_TYPE", {<<e.nid, a.nid>> : e \in es, a \in as})

resource_query(g, record) ==
    LET es == MatchEvent(g, record.id)
        found == {r \in g.Resource : r.name = record.resource}
        g1 == IF es = {} \/ found # {}
              THEN g
              ELSE [g EXCEPT !.Resource = @ \cup {[nid |-> g.next,
                                                   name |-> record.resource]},
                             !.next = @ + 1]
        rs == {r \in g1.Resource : r.name = record.resource}
    IN MergeRels(g1, "PERFORMED_BY", {<<e.nid, r.nid>> : e \in es, r \in rs})

\* object_query with CREATE (o:Object {...}) in place of the MERGE.
object_query_create(g, record) ==
    LET es == MatchEvent(g, record.id)
        g1 == IF es = {}
              THEN g
              ELSE [g EXCEPT !.Object = @ \cup {[nid |-> g.next,
                                                 id |-> record.obj_id,
                                                 type |-> record.obj_type]},
                             !.next = @ + 1]
    IN MergeRels(g1, "INVOLVES", {<<e.nid, g.next>> : e \in es})

object_query(g, record) ==
    LET es == MatchEvent(g, record.id)
        found == {o \in g.Object : o.id = record.obj_id /\ o.type = record.obj_type}
        g1 == IF es = {} \/ found # {}
              THEN g
              ELSE [g EXCEPT !.Object = @ \cup {[nid |-> g.next,
                                                 id |-> record.obj_id,
                                                 type |-> record.obj_type]},
                             !.next = @ + 1]
        os == {o \in g1.Object : o.id = record.obj_id /\ o.type = record.obj_type}
    IN MergeRels(g1, "INVOLVES", {<<e.nid, o.nid>> : e \in es, o \in os})

\* The rows of MATCH (e1:Event)-[:CONTAINS_EVENT]-(c:Case): one per relationship.
EventOf(g, row) == CHOOSE e \in g.Event : e.nid = row.dst

CaseOf(g, row) == CHOOSE c \in g.Case : c.nid = row.src

\* ORDER BY c.case_id, e1.timestamp: rows with equal keys may come in any order.
RowLeq(g, r1, r2) ==
    \/ CaseOf(g, r1).case_id < CaseOf(g, r2).case_id
    \/ /\ CaseOf(g, r1).case_id = CaseOf(g, r2).case_id
       /\ EventOf(g, r1).timestamp <= EventOf(g, r2).timestamp

RowOrders(g) ==
    LET rows == g.CONTAINS_EVENT
        n == Cardinality(rows)
    IN {s \in [1..n -> rows] :
            /\ \A a, b \in 1..n : a # b => s[a] # s[b]
            /\ \A a \in 1..(n - 1) : RowLeq(g, s[a], s[a + 1])}

\* Successors without the grouping by c: collect(e1) over all rows.
SuccessorsAnyCase(s, a) == (a + 1)..Len(s)

\* WITH c, collect(e1) AS events; UNWIND range(0, size(events)-2) AS i:
\* the row that follows row a in the list collected for a's case, if any.
Successors(s, a) == {b \in (a + 1)..Len(s) : s[b].src = s[a].src}

\* Following that pairs a row with the last row of its list, not the next.
FollowingLast(s, a) == CHOOSE b \in Successors(s, a) : \A c \in Successors(s, a) : b >= c

Following(s, a) == CHOOSE b \in Successors(s, a) : \A c \in Successors(s, a) : b <= c

\* PairKept with <= in place of <.
PairKeptOnTie(e1, e2) == e1.timestamp <= e2.timestamp /\ e1 # e2

\* WHERE e1.timestamp < e2.timestamp AND e1 <> e2
PairKept(e1, e2) == e1.timestamp < e2.timestamp /\ e1 # e2

\* MERGE (e1)-[r:NEXT_EVENT]->(e2) SET r.time_difference = duration.inSeconds(...)
MergeNext(g, e1, e2) ==
    LET found == {r \in g.NEXT_EVENT : r.src = e1.nid /\ r.dst = e2.nid}
        d == inSeconds(e1.timestamp, e2.timestamp)
    IN IF found = {}
       THEN [g EXCEPT !.NEXT_EVENT = @ \cup {[rid |-> g.next, src |-> e1.nid,
                                              dst |-> e2.nid, time_difference |-> d]},
                      !.next = @ + 1]
       ELSE [g EXCEPT !.NEXT_EVENT = (@ \ found)
                          \cup {[r EXCEPT !.time_difference = d] : r \in found}]

RECURSIVE LinkFrom(_, _, _)
LinkFrom(g, s, a) ==
    IF a > Len(s)
    THEN g
    ELSE IF Successors(s, a) = {}
         THEN LinkFrom(g, s, a + 1)
         ELSE LET e1 == EventOf(g, s[a])
                  e2 == EventOf(g, s[Following(s, a)])
              IN LinkFrom(IF PairKept(e1, e2) THEN MergeNext(g, e1, e2) ELSE g,
                          s, a + 1)

\* sequence_query that deletes every NEXT_EVENT before it creates its own.
sequence_query_rebuild(g, s) == LinkFrom([g EXCEPT !.NEXT_EVENT = {}], s, 1)

\* sequence_query, with its rows delivered in the order s.
sequence_query(g, s) == LinkFrom(g, s, 1)

\* session.write_transaction(lambda tx: [tx.run(query, record) for record in batch])
Query(stage, g, record) ==
    CASE stage = "event" -> event_query(g, record)
      [] stage = "case" -> case_query(g, record)
      [] stage = "activity" -> activity_query(g, record)
      [] stage = "resource" -> resource_query(g, record)
      [] stage = "object" -> object_query(g, record)

RECURSIVE write_transaction(_, _, _)
write_transaction(stage, g, records) ==
    IF records = <<>>
    THEN g
    ELSE write_transaction(stage, Query(stage, g, Head(records)), Tail(records))

-----------------------------------------------------------------------------
(* The script. *)

\* constraint_queries with the three CREATE statements ahead of the three DROPs.
constraint_queries_create_first ==
    <<[verb |-> "CREATE", name |-> "event_id_unique"],
      [verb |-> "CREATE", name |-> "case_unique"],
      [verb |-> "CREATE", name |-> "activity_name"],
      [verb |-> "DROP", name |-> "event_id_unique"],
      [verb |-> "DROP", name |-> "case_unique"],
      [verb |-> "DROP", name |-> "activity_name"]>>

constraint_queries ==
    <<[verb |-> "DROP", name |-> "event_id_unique"],
      [verb |-> "DROP", name |-> "case_unique"],
      [verb |-> "DROP", name |-> "activity_name"],
      [verb |-> "CREATE", name |-> "event_id_unique"],
      [verb |-> "CREATE", name |-> "case_unique"],
      [verb |-> "CREATE", name |-> "activity_name"]>>

\* DROP ... IF EXISTS / CREATE ... IF NOT EXISTS
RunSchema(sch, query) ==
    IF query.verb = "DROP" THEN sch \ {query.name} ELSE sch \cup {query.name}

Stages == <<"event", "case", "activity", "resource", "object">>

StageIndex(stage) == CHOOSE j \in 1..Len(Stages) : Stages[j] = stage

StepName(step) ==
    CASE step = "schema" -> "Constraints and indexes creation"
      [] step = "event" -> "Event nodes insertion"
      [] step = "case" -> "Case nodes insertion"
      [] step = "activity" -> "Activity nodes insertion"
      [] step = "resource" -> "Resource nodes insertion"
      [] step = "object" -> "Object nodes insertion"
      [] step = "sequence" -> "Sequence relationships creation"

log_step(step) == <<"Starting", StepName(step)>>

log_completion(step) == <<"completed", StepName(step)>>

StartMessage == <<"Starting full data upload process">>

SuccessMessage == <<"All data successfully uploaded to Neo4j AuraDB!">>

\* datetime.utcnow().isoformat(): a string without a zone suffix.
WallClock == {Stamp(h, "naive") : h \in 1..2}

\* The keys a stage's loop body reads with event[...]: a missing one is a KeyError.
RaisesKeyError(stage, event) ==
    stage = "event" /\ ~Has(event, "ocel_timestamp")

\* Appended with the Case stage reading case_id through .get(..., 0): an event
\* without case_id is given a record all the same.
AppendedCaseDefault(stage, event, now) ==
    CASE stage = "event" ->
           <<[id |-> event.ocel_id, timestamp |-> event.ocel_timestamp,
              activity |-> event.ocel_activity]>>
      [] stage = "case" ->
           <<[id |-> event.ocel_id,
              case_id |-> Get(event.ocel_attributes, "case_id", 0)]>>
      [] stage = "activity" ->
           <<[id |-> event.ocel_id, activity |-> event.ocel_activity,
              timestamp |-> Get(event, "ocel_timestamp", now)]>>
      [] stage = "resource" ->
           IF Has(event.ocel_attributes, "resource")
           THEN <<[id |-> event.ocel_id, resource |-> event.ocel_attributes.resource]>>
           ELSE <<>>
      [] stage = "object" ->
           LET objs == Get(event, "ocel_objects", <<>>)
           IN [j \in 1..Len(objs) |-> [id |-> event.ocel_id, obj_id |-> objs[j].id,
                                       obj_type |-> objs[j].type]]

\* The records one iteration of a stage's loop appends to its batch.
Appended(stage, event, now) ==
    CASE stage = "event" ->
           <<[id |-> event.ocel_id, timestamp |-> event.ocel_timestamp,
              activity |-> event.ocel_activity]>>
      [] stage = "case" ->
           IF Has(event.ocel_attributes, "case_id")
           THEN <<[id |-> event.ocel_id, case_id |-> event.ocel_attributes.case_id]>>
           ELSE <<>>
      [] stage = "activity" ->
           <<[id |-> event.ocel_id, activity |-> event.ocel_activity,
              timestamp |-> Get(event, "ocel_timestamp", now)]>>
      [] stage = "resource" ->
           IF Has(event.ocel_attributes, "resource")
           THEN <<[id |-> event.ocel_id, resource |-> event.ocel_attributes.resource]>>
           ELSE <<>>
      [] stage = "object" ->
           LET objs == Get(event, "ocel_objects", <<>>)
           IN [j \in 1..Len(objs) |-> [id |-> event.ocel_id, obj_id |-> objs[j].id,
                                       obj_type |-> objs[j].type]]

\* if len(batch) >= BATCH_SIZE: execute_batch(...)
BatchFull(b) == Len(b) >= BATCH_SIZE

\* The record of one store operation: what was issued, whether the driver was
\* open, and whether it went through.
Operation(op, arg, ok) == [op |-> op, arg |-> arg, open |-> driverOpen, ok |-> ok]

\* Raise with the exception caught and passed over: the script goes on.
Swallow ==
    UNCHANGED <<json_data, BATCH_SIZE, graph, schema, driverOpen, pc, k, i, batch,
                logged, run, firstCounts>>

\* An uncaught exception ends the script; leaving the `with` closes the driver.
Raise ==
    /\ pc' = "failed"
    /\ driverOpen' = FALSE
    /\ UNCHANGED <<json_data, BATCH_SIZE, graph, schema, k, i, batch, logged, run,
                   firstCounts>>

Counts(g) ==
    [Event |-> Cardinality(g.Event), Case |-> Cardinality(g.Case),
     Activity |-> Cardinality(g.Activity), Resource |-> Cardinality(g.Resource),
     Object |-> Cardinality(g.Object),
     CONTAINS_EVENT |-> Cardinality(g.CONTAINS_EVENT),
     OF_TYPE |-> Cardinality(g.OF_TYPE),
     PERFORMED_BY |-> Cardinality(g.PERFORMED_BY),
     INVOLVES |-> Cardinality(g.INVOLVES),
     NEXT_EVENT |-> Cardinality(g.NEXT_EVENT)]

\* The script's state as it enters the `with` block, up to log_step of step 1.
Begin(log, size, n) ==
    /\ json_data = log
    /\ BATCH_SIZE = size
    /\ driverOpen = TRUE
    /\ pc = "schema"
    /\ k = 1
    /\ i = 1
    /\ batch = <<>>
    /\ issued = <<>>
    /\ logged = <<StartMessage, log_step("schema")>>
    /\ run = n

\* Step 1, one statement: with driver.session() as session: session.run(query)
SchemaStatement ==
    /\ pc = "schema"
    /\ schema' = RunSchema(schema, constraint_queries[k])
    /\ issued' = Append(issued, Operation("schema", constraint_queries[k], TRUE))
    /\ IF k < Len(constraint_queries)
       THEN /\ k' = k + 1
            /\ UNCHANGED <<pc, logged>>
       ELSE /\ k' = 1
            /\ pc' = "event"
            /\ logged' = logged \o <<log_completion("schema"), log_step("event")>>
    /\ UNCHANGED <<json_data, BATCH_SIZE, graph, driverOpen, i, batch, run,
                   firstCounts>>

SchemaError ==
    /\ pc = "schema"
    /\ issued' = Append(issued, Operation("schema", constraint_queries[k], FALSE))
    /\ Raise

InStage == \E j \in 1..Len(Stages) : pc = Stages[j]

\* One iteration of a stage's loop that raises KeyError before anything is appended.
IterationKeyError ==
    /\ InStage
    /\ i <= Len(json_data)
    /\ RaisesKeyError(pc, json_data[i])
    /\ UNCHANGED issued
    /\ Raise

\* One iteration of a stage's loop that leaves the batch short of BATCH_SIZE.
IterationAppend ==
    /\ InStage
    /\ i <= Len(json_data)
    /\ ~RaisesKeyError(pc, json_data[i])
    /\ \E now \in WallClock :
         LET b == batch \o Appended(pc, json_data[i], now)
         IN /\ ~BatchFull(b)
            /\ batch' = b
    /\ i' = i + 1
    /\ UNCHANGED <<json_data, BATCH_SIZE, graph, schema, driverOpen, pc, k, issued,
                   logged, run, firstCounts>>

\* IterationWrite without `batch = []` after the write: the records written
\* stay in the batch and are written again with the next ones.
IterationWriteKeep ==
    /\ InStage
    /\ i <= Len(json_data)
    /\ ~RaisesKeyError(pc, json_data[i])
    /\ \E now \in WallClock :
         LET b == batch \o Appended(pc, json_data[i], now)
         IN /\ BatchFull(b)
            /\ graph' = write_transaction(pc, graph, b)
            /\ issued' = Append(issued, Operation(pc, b, TRUE))
            /\ batch' = b
    /\ i' = i + 1
    /\ UNCHANGED <<json_data, BATCH_SIZE, schema, driverOpen, pc, k, logged, run,
                   firstCounts>>

\* One iteration of a stage's loop that fills the batch and writes it.
IterationWrite ==
    /\ InStage
    /\ i <= Len(json_data)
    /\ ~RaisesKeyError(pc, json_data[i])
    /\ \E now \in WallClock :
         LET b == batch \o Appended(pc, json_data[i], now)
         IN /\ BatchFull(b)
            /\ graph' = write_transaction(pc, graph, b)
            /\ issued' = Append(issued, Operation(pc, b, TRUE))
    /\ batch' = <<>>
    /\ i' = i + 1
    /\ UNCHANGED <<json_data, BATCH_SIZE, schema, driverOpen, pc, k, logged, run,
                   firstCounts>>

\* IterationWriteError without the rollback: the first record of the batch
\* stays applied when the write raises.
IterationWritePartial ==
    /\ InStage
    /\ i <= Len(json_data)
    /\ ~RaisesKeyError(pc, json_data[i])
    /\ \E now \in WallClock :
         LET b == batch \o Appended(pc, json_data[i], now)
         IN /\ BatchFull(b)
            /\ issued' = Append(issued, Operation(pc, b, FALSE))
            /\ graph' = write_transaction(pc, graph, SubSeq(b, 1, 1))
    /\ pc' = "failed"
    /\ driverOpen' = FALSE
    /\ UNCHANGED <<json_data, BATCH_SIZE, schema, k, i, batch, logged, run,
                   firstCounts>>

\* One iteration of a stage's loop whose write raises: the transaction is rolled back.
IterationWriteError ==
    /\ InStage
    /\ i <= Len(json_data)
    /\ ~RaisesKeyError(pc, json_data[i])
    /\ \E now \in WallClock :
         LET b == batch \o Appended(pc, json_data[i], now)
         IN /\ BatchFull(b)
            /\ issued' = Append(issued, Operation(pc, b, FALSE))
    /\ Raise

\* What follows a stage's loop and final execute_batch: log_completion, then the
\* next step's log_step; after step 6 the `with` block is left.
AfterStage ==
    /\ i' = 1
    /\ batch' = <<>>
    /\ IF pc = "object"
       THEN /\ pc' = "sequence"
            /\ driverOpen' = FALSE
            /\ logged' = logged \o <<log_completion(pc), log_step("sequence")>>
       ELSE /\ pc' = Stages[StageIndex(pc) + 1]
            /\ driverOpen' = driverOpen
            /\ logged' = logged \o <<log_completion(pc),
                                     log_step(Stages[StageIndex(pc) + 1])>>
    /\ UNCHANGED <<json_data, BATCH_SIZE, schema, k, run, firstCounts>>

\* Flush without the execute_batch after the loop: the last batch is dropped.
FlushDropped ==
    /\ InStage
    /\ i > Len(json_data)
    /\ UNCHANGED <<graph, issued>>
    /\ AfterStage

\* The execute_batch after a stage's loop: a no-op on an empty batch.
Flush ==
    /\ InStage
    /\ i > Len(json_data)
    /\ IF batch = <<>>
       THEN UNCHANGED <<graph, issued>>
       ELSE /\ graph' = write_transaction(pc, graph, batch)
            /\ issued' = Append(issued, Operation(pc, batch, TRUE))
    /\ AfterStage

FlushError ==
    /\ InStage
    /\ i > Len(json_data)
    /\ batch # <<>>
    /\ issued' = Append(issued, Operation(pc, batch, FALSE))
    /\ Raise

\* Step 7, after the `with` block: with driver.session() as session:
\* session.run(sequence_query), its rows ordered any way ORDER BY allows.
Sequence ==
    /\ pc = "sequence"
    /\ \E s \in RowOrders(graph) : graph' = sequence_query(graph, s)
    /\ issued' = Append(issued, Operation("sequence", <<>>, TRUE))
    /\ logged' = logged \o <<log_completion("sequence"), SuccessMessage>>
    /\ pc' = "done"
    /\ UNCHANGED <<json_data, BATCH_SIZE, schema, driverOpen, k, i, batch, run,
                   firstCounts>>

\* Step 7 raises: the store fails, or the closed driver refuses the session.
SequenceError ==
    /\ pc = "sequence"
    /\ issued' = Append(issued, Operation("sequence", <<>>, FALSE))
    /\ Raise

Finished == pc \in {"done", "failed"}

\* A run that succeeded is followed by another on the same configuration and
\* event log.
Rerun ==
    /\ pc = "done"
    /\ run < MaxRuns
    /\ run' = run + 1
    /\ driverOpen' = TRUE
    /\ pc' = "schema"
    /\ k' = 1
    /\ i' = 1
    /\ batch' = <<>>
    /\ issued' = <<>>
    /\ logged' = <<StartMessage, log_step("schema")>>
    /\ firstCounts' = IF run = 1
                      THEN [taken |-> TRUE, counts |-> Counts(graph)]
                      ELSE firstCounts
    /\ UNCHANGED <<json_data, BATCH_SIZE, graph, schema>>

Step ==
    \/ SchemaStatement
    \/ SchemaError
    \/ IterationKeyError
    \/ IterationAppend
    \/ IterationWrite
    \/ IterationWriteError
    \/ Flush
    \/ FlushError
    \/ Sequence
    \/ SequenceError

\* A run that ended, in success or in failure, is followed by another on any
\* event log.
RunAgain ==
    /\ Finished
    /\ run < MaxRuns
    /\ json_data' \in AnyLogs
    /\ run' = run + 1
    /\ driverOpen' = TRUE
    /\ pc' = "schema"
    /\ k' = 1
    /\ i' = 1
    /\ batch' = <<>>
    /\ issued' = <<>>
    /\ logged' = <<StartMessage, log_step("schema")>>
    /\ UNCHANGED <<BATCH_SIZE, graph, schema, firstCounts>>

Start(logs) ==
    /\ \E log \in logs, size \in 1..MaxBatch : Begin(log, size, 1)
    /\ graph = EmptyGraph
    /\ schema = {}
    /\ firstCounts = [taken |-> FALSE, counts |-> Counts(EmptyGraph)]

\* Runs of the script on one event log.
Init == Start(Logs)

Next == Step \/ Rerun

Spec == Init /\ [][Next]_vars

\* Runs of the script on changing event logs.
InitAnyLog == Start(AnyLogs)

NextAnyLog == Step \/ RunAgain

SpecAnyLog == InitAnyLog /\ [][NextAnyLog]_vars

-----------------------------------------------------------------------------
(* Reading the graph. *)

Range(f) == {f[x] : x \in DOMAIN f}

EventNode(g, nid) == CHOOSE e \in g.Event : e.nid = nid

\* The Events a Case has a CONTAINS_EVENT relationship to.
EventsOfCase(g, c) == {r.dst : r \in {q \in g.CONTAINS_EVENT : q.src = c.nid}}

CasesOfEvent(g, nid) == {r.src : r \in {q \in g.CONTAINS_EVENT : q.dst = nid}}

\* The <<source, target>> pairs joined by NEXT_EVENT relationships.
NextPairs(g) == {<<r.src, r.dst>> : r \in g.NEXT_EVENT}

FirstRunDone == run = 1 /\ pc = "done"

-----------------------------------------------------------------------------
(* C1: running the script a second time on the same event log leaves the    *)
(* number of nodes of every label and of relationships of every type as the *)
(* first run from an empty store left them.                                  *)
C1_Idempotent ==
    (run = 2 /\ pc = "done" /\ firstCounts.taken)
        => Counts(graph) = firstCounts.counts

(* C2: no NEXT_EVENT relationship joins an Event to itself, and the two     *)
(* Events of every NEXT_EVENT relationship are contained in a common Case.  *)
C2_NextWithinCase ==
    \A r \in graph.NEXT_EVENT :
        /\ r.src # r.dst
        /\ CasesOfEvent(graph, r.src) \cap CasesOfEvent(graph, r.dst) # {}

\* After a later run, a NEXT_EVENT of an earlier run joins two Events that the
\* later log has moved to one instant, and two Cases hold events.
C2_Witness ==
    /\ run > 1
    /\ pc = "done"
    /\ Cardinality(graph.Case) > 1
    /\ \E r \in graph.NEXT_EVENT :
         EventNode(graph, r.src).timestamp = EventNode(graph, r.dst).timestamp

(* C3: in a run from an empty store every NEXT_EVENT relationship goes from *)
(* an Event to one with an equal or later timestamp, and its                *)
(* time_difference is the difference of the two timestamps in seconds,      *)
(* never negative.                                                           *)
C3_NextOrdered ==
    run = 1 =>
        \A r \in graph.NEXT_EVENT :
            LET t1 == EventNode(graph, r.src).timestamp
                t2 == EventNode(graph, r.dst).timestamp
            IN /\ t1 <= t2
               /\ r.time_difference = (t2 - t1) * SecondsPerHour
               /\ r.time_difference >= 0

C3_Witness ==
    /\ FirstRunDone
    /\ \E c \in graph.Case : Cardinality(EventsOfCase(graph, c)) >= 2
    /\ \E r \in graph.NEXT_EVENT : r.time_difference = 2 * SecondsPerHour

\* The Events of a Case have pairwise distinct timestamps and no other Case.
DistinctlyTimed(g, c) ==
    \A a \in EventsOfCase(g, c) :
        /\ CasesOfEvent(g, a) = {c.nid}
        /\ \A b \in EventsOfCase(g, c) :
               a # b => EventNode(g, a).timestamp # EventNode(g, b).timestamp

\* b is the Event of the set that follows a immediately in timestamp order.
ImmediatelyAfter(g, evs, a, b) ==
    /\ EventNode(g, a).timestamp < EventNode(g, b).timestamp
    /\ \A x \in evs : ~(/\ EventNode(g, a).timestamp < EventNode(g, x).timestamp
                        /\ EventNode(g, x).timestamp < EventNode(g, b).timestamp)

(* C4: after a run from an empty store, a Case whose n events have pairwise *)
(* distinct timestamps has among them exactly the n-1 NEXT_EVENT            *)
(* relationships from each event to its immediate successor.                *)
C4_ChainOfSuccessors ==
    FirstRunDone =>
        \A c \in graph.Case :
            LET evs == EventsOfCase(graph, c)
                among == {r \in graph.NEXT_EVENT : r.src \in evs /\ r.dst \in evs}
            IN DistinctlyTimed(graph, c) =>
                 /\ {<<r.src, r.dst>> : r \in among}
                      = {p \in evs \X evs : ImmediatelyAfter(graph, evs, p[1], p[2])}
                 /\ Cardinality(among) = Cardinality(evs) - 1

C4_Witness ==
    /\ FirstRunDone
    /\ \E c \in graph.Case :
         /\ Cardinality(EventsOfCase(graph, c)) = 3
         /\ DistinctlyTimed(graph, c)

(* C5: the NEXT_EVENT relationships the sequence query creates are          *)
(* determined by the event log: every order of the rows that its ORDER BY   *)
(* allows yields the same set of NEXT_EVENT pairs.                          *)
C5_Reproducible ==
    (run = 1 /\ pc = "sequence") =>
        \A s1, s2 \in RowOrders(graph) :
            NextPairs(sequence_query(graph, s1)) = NextPairs(sequence_query(graph, s2))

\* The NEXT_EVENT relationships of h that g does not hold.
CreatedNext(g, h) ==
    {r \in h.NEXT_EVENT : \A q \in g.NEXT_EVENT : q.rid # r.rid}

(* C6: no step creates a NEXT_EVENT relationship between two Events whose   *)
(* timestamps are the same instant.                                          *)
C6_NoEdgeOnTie ==
    [][\A r \in CreatedNext(graph, graph') :
           EventNode(graph', r.src).timestamp # EventNode(graph', r.dst).timestamp]_vars

\* Two Events of one Case carry the same instant, written in two forms, and the
\* sequence query has run over them.
C6_Witness ==
    /\ pc = "done"
    /\ \E c \in graph.Case : \E a, b \in EventsOfCase(graph, c) :
         /\ a # b
         /\ EventNode(graph, a).timestamp = EventNode(graph, b).timestamp
         /\ <<a, b>> \notin NextPairs(graph)
         /\ <<b, a>> \notin NextPairs(graph)
    /\ \E x, y \in Range(json_data) :
         /\ x.ocel_id # y.ocel_id
         /\ x.ocel_timestamp # y.ocel_timestamp
         /\ datetime(x.ocel_timestamp) = datetime(y.ocel_timestamp)

\* The records of the batches of a stage that the operations ops wrote.
RECURSIVE Written(_, _)
Written(stage, ops) ==
    IF ops = <<>>
    THEN <<>>
    ELSE (IF Head(ops).op = stage /\ Head(ops).ok THEN Head(ops).arg ELSE <<>>)
         \o Written(stage, Tail(ops))

\* Every record a stage's loop appends over the whole event log.
RECURSIVE AllRecords(_, _)
AllRecords(stage, events) ==
    IF events = <<>>
    THEN <<>>
    ELSE Appended(stage, Head(events), CHOOSE now \in WallClock : TRUE)
         \o AllRecords(stage, Tail(events))

IsStage(op) == \E j \in 1..Len(Stages) : Stages[j] = op

(* C7: a batch of the Case, Activity, Resource or Object stage is issued    *)
(* only after every record of the Event stage has been written, and the     *)
(* sequence query only after every record of all five stages has been.      *)
C7_StageOrder ==
    \A j \in DOMAIN issued :
        LET before == SubSeq(issued, 1, j - 1)
        IN /\ (IsStage(issued[j].op) /\ issued[j].op # "event")
                => Written("event", before) = AllRecords("event", json_data)
           /\ issued[j].op = "sequence"
                => \A n \in 1..Len(Stages) :
                       Written(Stages[n], before) = AllRecords(Stages[n], json_data)

C7_Witness ==
    /\ pc = "done"
    /\ \A n \in 1..Len(Stages) : Len(Written(Stages[n], issued)) >= 2

(* C8: a store operation that raises is the last one of its run, and the    *)
(* run that raised does not log its success message.                        *)
C8_FailureHalts ==
    /\ \A j \in DOMAIN issued : ~issued[j].ok => j = Len(issued) /\ pc = "failed"
    /\ pc = "failed" => SuccessMessage \notin Range(logged)

C8_Witness ==
    /\ pc = "failed"
    /\ Len(issued) > Len(constraint_queries) + 1
    /\ issued[Len(issued)].op = "event"
    /\ ~issued[Len(issued)].ok

\* The OF_TYPE relationships that leave an Event node.
OfTypeFrom(g, e) == {r \in g.OF_TYPE : r.src = e.nid}

\* The entries of the event log that carry an id.
EntriesOf(id) == {j \in DOMAIN json_data : json_data[j].ocel_id = id}

(* C9, as claimed: after a run from an empty store every event of the log   *)
(* has exactly one Event node, with exactly one outgoing OF_TYPE.           *)
C9_OneOfTypeEach ==
    FirstRunDone =>
        \A j \in DOMAIN json_data :
            /\ Cardinality(MatchEvent(graph, json_data[j].ocel_id)) = 1
            /\ \A e \in MatchEvent(graph, json_data[j].ocel_id) :
                   Cardinality(OfTypeFrom(graph, e)) = 1

(* C9, amended: after a run from an empty store every event of the log has  *)
(* exactly one Event node; its outgoing OF_TYPE relationships number the    *)
(* distinct (activity, timestamp string) pairs of the log's entries with    *)
(* that id, which is one when the id occurs once.                           *)
C9_OfTypePerEntry ==
    FirstRunDone =>
        \A j \in DOMAIN json_data :
            LET id == json_data[j].ocel_id
                labels == {<<json_data[n].ocel_activity, json_data[n].ocel_timestamp>> :
                             n \in EntriesOf(id)}
            IN /\ Cardinality(MatchEvent(graph, id)) = 1
               /\ \A e \in MatchEvent(graph, id) :
                      /\ Cardinality(OfTypeFrom(graph, e)) = Cardinality(labels)
                      /\ Cardinality(EntriesOf(id)) = 1
                           => Cardinality(OfTypeFrom(graph, e)) = 1

C9_Witness ==
    /\ FirstRunDone
    /\ \E a, b \in DOMAIN json_data :
         /\ a # b
         /\ json_data[a].ocel_id = json_data[b].ocel_id
         /\ json_data[a].ocel_timestamp = json_data[b].ocel_timestamp
         /\ json_data[a].ocel_activity = json_data[b].ocel_activity

(* C10: no two Event nodes share an ocel_id, no two Case nodes a case_id,   *)
(* and no two Object nodes an (id, type) pair.                              *)
C10_UniqueKeys ==
    /\ \A a, b \in graph.Event : a.ocel_id = b.ocel_id => a = b
    /\ \A a, b \in graph.Case : a.case_id = b.case_id => a = b
    /\ \A a, b \in graph.Object : (a.id = b.id /\ a.type = b.type) => a = b

C10_Witness ==
    /\ run > 1
    /\ pc = "done"
    /\ \E o \in graph.Object :
         Cardinality({r \in graph.INVOLVES : r.dst = o.nid}) > 1
    /\ \E a, b \in graph.Object : a.id = b.id /\ a.type # b.type
    /\ graph.Case # {}

(* C11: every batch a stage hands to the store holds at most BATCH_SIZE     *)
(* records, and every batch of a stage but its last holds exactly           *)
(* BATCH_SIZE records.                                                       *)
C11_FixedSizeBatches ==
    \A j \in DOMAIN issued :
        IsStage(issued[j].op) =>
            /\ Len(issued[j].arg) <= BATCH_SIZE
            /\ (\E n \in DOMAIN issued : n > j /\ issued[n].op = issued[j].op)
                   => Len(issued[j].arg) = BATCH_SIZE

-----------------------------------------------------------------------------
(* What the graph holds for an entry of the event log. *)

NoCaseId(event) == ~Has(event.ocel_attributes, "case_id")

\* The case_ids carried by the log's entries with an id.
CaseIdsOf(id) ==
    {json_data[n].ocel_attributes.case_id :
        n \in {m \in EntriesOf(id) : ~NoCaseId(json_data[m])}}

\* The case_ids of the Cases that contain an Event node.
CaseIdsAt(g, e) == {c.case_id : c \in {x \in g.Case : x.nid \in CasesOfEvent(g, e.nid)}}

TouchesNext(g, e) == \E r \in g.NEXT_EVENT : r.src = e.nid \/ r.dst = e.nid

\* The Event node of the entry has an OF_TYPE to the Activity of its
\* (activity, timestamp string).
HasOfTypeAt(g, event, ts) ==
    \E e \in MatchEvent(g, event.ocel_id) : \E r \in g.OF_TYPE : \E a \in g.Activity :
        /\ r.src = e.nid
        /\ r.dst = a.nid
        /\ a.name = event.ocel_activity
        /\ a.timestamp = ts

HasOfType(g, event) == HasOfTypeAt(g, event, event.ocel_timestamp)

\* The Case of the entry's case_id has a CONTAINS_EVENT to its Event node.
HasContainsEvent(g, event) ==
    \E e \in MatchEvent(g, event.ocel_id) : \E r \in g.CONTAINS_EVENT : \E c \in g.Case :
        /\ r.src = c.nid
        /\ r.dst = e.nid
        /\ c.case_id = event.ocel_attributes.case_id

\* The Event node of the entry has a PERFORMED_BY to the Resource of its resource.
HasPerformedBy(g, event) ==
    \E e \in MatchEvent(g, event.ocel_id) : \E r \in g.PERFORMED_BY : \E x \in g.Resource :
        /\ r.src = e.nid
        /\ r.dst = x.nid
        /\ x.name = event.ocel_attributes.resource

\* The Event node of the entry has an INVOLVES to the Object of an (id, type).
HasInvolves(g, event, obj) ==
    \E e \in MatchEvent(g, event.ocel_id) : \E r \in g.INVOLVES : \E o \in g.Object :
        /\ r.src = e.nid
        /\ r.dst = o.nid
        /\ o.id = obj.id
        /\ o.type = obj.type

\* The Event node, OF_TYPE, PERFORMED_BY and INVOLVES of an entry are there.
OtherStagesRan(g, event) ==
    /\ MatchEvent(g, event.ocel_id) # {}
    /\ HasOfType(g, event)
    /\ Has(event.ocel_attributes, "resource") => HasPerformedBy(g, event)
    /\ \A obj \in Range(Get(event, "ocel_objects", <<>>)) : HasInvolves(g, event, obj)

\* The run ended on an exception that no store operation raised.
FailedOutsideStore == pc = "failed" /\ issued # <<>> /\ issued[Len(issued)].ok

(* C12, as claimed: after a run from an empty store the Event node of an    *)
(* entry without case_id is contained in no Case and touched by no          *)
(* NEXT_EVENT, while its OF_TYPE, PERFORMED_BY and INVOLVES are there.      *)
C12_NoCaseNoEdge ==
    FirstRunDone =>
        \A j \in DOMAIN json_data :
            NoCaseId(json_data[j]) =>
                /\ \A e \in MatchEvent(graph, json_data[j].ocel_id) :
                       /\ CasesOfEvent(graph, e.nid) = {}
                       /\ ~TouchesNext(graph, e)
                /\ OtherStagesRan(graph, json_data[j])

(* C12, amended: the Case stage appends no record for an entry without      *)
(* case_id and a run never fails on the missing case_id.  After a run from  *)
(* an empty store the Cases are those of the case_ids in the log, and the   *)
(* Event node of such an entry is contained in the Cases that the log's     *)
(* other entries with its id name: in none, and touched by no NEXT_EVENT,   *)
(* when no entry with its id carries case_id.  Its OF_TYPE, PERFORMED_BY    *)
(* and INVOLVES are there.                                                   *)
C12_NoCaseRecord ==
    /\ \A j \in DOMAIN json_data :
          NoCaseId(json_data[j]) =>
              \A now \in WallClock : Appended("case", json_data[j], now) = <<>>
    /\ FailedOutsideStore => ~Has(json_data[i], "ocel_timestamp")
    /\ FirstRunDone =>
          /\ {c.case_id : c \in graph.Case}
               = UNION {CaseIdsOf(json_data[j].ocel_id) : j \in DOMAIN json_data}
          /\ \A j \in DOMAIN json_data :
                NoCaseId(json_data[j]) =>
                    /\ \A e \in MatchEvent(graph, json_data[j].ocel_id) :
                           /\ CaseIdsAt(graph, e) = CaseIdsOf(json_data[j].ocel_id)
                           /\ CaseIdsOf(json_data[j].ocel_id) = {}
                                => ~TouchesNext(graph, e)
                    /\ OtherStagesRan(graph, json_data[j])

\* A run succeeded on a log with an entry that has no case_id, a resource and
\* an object, next to an entry of another id that has a case_id.
C12_Witness ==
    /\ FirstRunDone
    /\ graph.Case # {}
    /\ \E j \in DOMAIN json_data :
         /\ NoCaseId(json_data[j])
         /\ CaseIdsOf(json_data[j].ocel_id) = {}
         /\ Has(json_data[j].ocel_attributes, "resource")
         /\ Get(json_data[j], "ocel_objects", <<>>) # <<>>

(* C13: a run does not fail on an event without a timestamp: it fails only  *)
(* when a store operation raises, and after a successful run every entry    *)
(* has its Activity node and OF_TYPE, with the wall-clock time at ingestion *)
(* in place of a missing timestamp.                                          *)
C13_TimestampFallback ==
    /\ ~FailedOutsideStore
    /\ pc = "done" =>
          \A j \in DOMAIN json_data :
              \E now \in WallClock :
                  HasOfTypeAt(graph, json_data[j],
                              Get(json_data[j], "ocel_timestamp", now))

SchemaNames == {"event_id_unique", "case_unique", "activity_name"}

SchemaOrder == <<"event_id_unique", "case_unique", "activity_name">>

(* C14: the first six store operations of every run are the schema          *)
(* statements: the three DROPs, then the three CREATEs, of the Event        *)
(* constraint, the Case constraint and the Activity index in this order.    *)
(* No batch and no sequence query is issued before all six went through,    *)
(* and from then on the store holds exactly the two constraints and the     *)
(* index, whatever it held when the run began.                               *)
C14_SchemaBeforeData ==
    /\ \A j \in DOMAIN issued :
          /\ issued[j].op = "schema" <=> j <= 6
          /\ j <= 3 => issued[j].arg = [verb |-> "DROP", name |-> SchemaOrder[j]]
          /\ j \in 4..6 => issued[j].arg = [verb |-> "CREATE", name |-> SchemaOrder[j - 3]]
          /\ j > 6 => \A n \in 1..6 : issued[n].ok
    /\ (Len(issued) >= 6 /\ issued[6].ok) => schema = SchemaNames
    /\ (pc \notin {"schema", "failed"}) => Len(issued) >= 6

\* A later run, begun on a store that an earlier run left with part of the
\* schema or all of it, has written data after its schema step.
C14_Witness ==
    /\ run > 1
    /\ Len(issued) > 6
    /\ IsStage(issued[Len(issued)].op)
    /\ issued[Len(issued)].ok
    /\ schema = SchemaNames

\* The graph that the batches written by the operations ops leave of g.
RECURSIVE Applied(_, _)
Applied(g, ops) ==
    IF ops = <<>>
    THEN g
    ELSE Applied(IF IsStage(Head(ops).op) /\ Head(ops).ok
                 THEN write_transaction(Head(ops).op, g, Head(ops).arg)
                 ELSE g,
                 Tail(ops))

(* C15: when a run from an empty store has failed, the graph is what the    *)
(* batches written before the failure leave, each applied whole: a batch    *)
(* whose write raised has left nothing of its records.                      *)
C15_BatchAtomic ==
    (run = 1 /\ pc = "failed") => graph = Applied(EmptyGraph, issued)

\* The write of a batch of two records raised after an earlier batch was written.
C15_Witness ==
    /\ run = 1
    /\ pc = "failed"
    /\ IsStage(issued[Len(issued)].op)
    /\ ~issued[Len(issued)].ok
    /\ Len(issued[Len(issued)].arg) >= 2
    /\ Written(issued[Len(issued)].op, issued) # <<>>

\* The step pc comes after the stage: a later stage, the sequence query, or
\* the end of a successful run.
StagePassed(stage) ==
    \/ pc \in {"sequence", "done"}
    \/ IsStage(pc) /\ StageIndex(pc) > StageIndex(stage)

(* C16: no write is issued for an empty batch.  While a stage's loop runs,  *)
(* the batches it has written, in order, followed by the batch in hand, are *)
(* the records of the events passed so far, in input order; once the stage  *)
(* is passed, the batches it has written are its records for the whole      *)
(* log, each once and in input order.                                        *)
C16_ExactlyOnce ==
    /\ \A j \in DOMAIN issued : IsStage(issued[j].op) => issued[j].arg # <<>>
    /\ \A n \in 1..Len(Stages) :
          /\ pc = Stages[n] =>
                 Written(Stages[n], issued) \o batch
                     = AllRecords(Stages[n], SubSeq(json_data, 1, i - 1))
          /\ StagePassed(Stages[n]) =>
                 Written(Stages[n], issued) = AllRecords(Stages[n], json_data)

\* The operations of a run that carry a batch of a stage.
StageOps(stage) == {j \in DOMAIN issued : issued[j].op = stage}

\* A run has ended in which one stage wrote a full batch and then a partial
\* one after its loop, and another stage had no record and wrote nothing.
C16_Witness ==
    /\ pc = "done"
    /\ \E n \in 1..Len(Stages) : StageOps(Stages[n]) = {}
    /\ \E n \in 1..Len(Stages) :
         \E a, b \in StageOps(Stages[n]) :
             /\ a < b
             /\ Len(issued[a].arg) = BATCH_SIZE
             /\ Len(issued[b].arg) < BATCH_SIZE

(* C17: every store operation of a run is issued while the driver of the    *)
(* `with` scope is open.                                                     *)
C17_DriverOpen == \A j \in DOMAIN issued : issued[j].open

(* C18: once the five stages of a run are through, every entry of the log   *)
(* that carries case_id has a CONTAINS_EVENT from the Case of that case_id  *)
(* to its Event node, every entry that carries a resource has a             *)
(* PERFORMED_BY to that Resource, and every entry of an event's object list *)
(* has an INVOLVES to the Object of its (id, type).                         *)
C18_MatchNeverMisses ==
    pc \in {"sequence", "done"} =>
        \A j \in DOMAIN json_data :
            LET event == json_data[j]
            IN /\ MatchEvent(graph, event.ocel_id) # {}
               /\ ~NoCaseId(event) => HasContainsEvent(graph, event)
               /\ Has(event.ocel_attributes, "resource") => HasPerformedBy(graph, event)
               /\ \A obj \in Range(Get(event, "ocel_objects", <<>>)) :
                      HasInvolves(graph, event, obj)

\* A later run has succeeded on an event with a case_id, a resource and an object.
C18_Witness ==
    /\ run > 1
    /\ pc = "done"
    /\ \E j \in DOMAIN json_data :
         /\ ~NoCaseId(json_data[j])
         /\ Has(json_data[j].ocel_attributes, "resource")
         /\ Get(json_data[j], "ocel_objects", <<>>) # <<>>

NodeLabels == {"Event", "Case", "Activity", "Resource", "Object"}

RelationshipTypes == {"CONTAINS_EVENT", "OF_TYPE", "PERFORMED_BY", "INVOLVES", "NEXT_EVENT"}

\* A node without the properties that SET overwrites.
NodeKey(label, x) == IF label = "Event" THEN <<x.nid, x.ocel_id>> ELSE x

\* A relationship without the properties that SET overwrites.
RelationshipKey(r) == <<r.rid, r.src, r.dst>>

(* C19: no step of any run removes a node or a relationship: the nodes of   *)
(* every label and the relationships of every type, NEXT_EVENT of earlier   *)
(* runs included, are all still there after the step.  A constraint or the  *)
(* index goes away only by a DROP statement of the schema step.             *)
C19_OnlyGrows ==
    [][/\ \A label \in NodeLabels :
             {NodeKey(label, x) : x \in graph[label]}
                 \subseteq {NodeKey(label, x) : x \in graph'[label]}
       /\ \A type \in RelationshipTypes :
             {RelationshipKey(r) : r \in graph[type]}
                 \subseteq {RelationshipKey(r) : r \in graph'[type]}
       /\ ~(schema \subseteq schema')
             => pc = "schema" /\ constraint_queries[k].verb = "DROP"]_vars

\* A later run has ended and has left a NEXT_EVENT of an earlier run that now
\* goes from the later Event to the earlier.
C19_Witness ==
    /\ run > 1
    /\ pc = "done"
    /\ \E r \in graph.NEXT_EVENT :
         EventNode(graph, r.src).timestamp > EventNode(graph, r.dst).timestamp
    /\ schema = SchemaNames

====
